---- MODULE Spec2Model ----
(***************************************************************************)
(* Rule engine of the layered tile-matching game in                        *)
(* src/src/components/AlefGame.jsx: occlusion solver, board session, tray  *)
(* with pair elimination, undo history, scheduled callbacks and the        *)
(* playing / win / lose state machine.                                     *)
(*                                                                         *)
(* Lengths are in hundredths of a pixel, so that the factors 1.02, 0.08,   *)
(* 0.07 and 0.18 of the source are exact integers.                         *)
(***************************************************************************)
EXTENDS Integers, Sequences, FiniteSets, TLC

(* ------------------------------ bounds --------------------------------- *)
\* number of symbol pairs on the modelled board (the board has 2*NumPairs tiles)
NumPairs == 3
\* size of the symbol subset the pair pool is drawn from
LetterPoolSize == 3
\* the level the player selects besides the default level 1
LevelPlayed == 3
\* cap on moveCount (successful tray insertions in one session)
MaxMoves == 6
\* reshuffle is explored while fewer than MaxHistory snapshots are stacked
MaxHistory == 6
\* reshuffle is explored on boards with at most MaxShuffleLive live tiles
MaxShuffleLive == 1
\* number of distinct outcomes of one call of shuffle that are explored
ShuffleChoices == 1
\* a tile enters the tray only while fewer than MaxPending callbacks are pending
MaxPending == 1
\* counted moves of a session that is won, taken back and won again
MaxMovesRewin == 7
\* counted moves on the boards of every level
MaxMovesBoards == 1
\* tiles left on the small boards of every level
MaxAliveBoards == 2
\* the same limit on the boards where activations overlap pending removals
MaxPendingLeaving == 2
\* live tiles on those boards
MaxAliveLeaving == 2
\* cap on moveCount - Len(history), the insertions taken back by undo
MaxUndos == 1
\* the solver is run on every board of the level-1 layout with at most MaxAlive
\* tiles left
MaxAlive == 3
\* the interval timer is followed while elapsedSec < MaxElapsedSec
MaxElapsedSec == 1
\* a session is started only while totalMerits < MaxTotalMerits
MaxTotalMerits == 1
\* largest moveCount at which the merits of a win are computed
MaxWinMoves == 74
\* largest elapsedSec at which the merits of a win are computed
MaxWinSec == 200
\* largest tileCount handed to buildLayout
MaxSlotCount == 53

(* -------------------------- program constants -------------------------- *)
TRAY_LIMIT == 4
BOARD_REMOVE_MS == 240
TRAY_MATCH_MS == 1450
WIN_BANNER_MS == 1800
MAX_LEVEL == 10
tileW == 72
tileH == 84

(* ------------------------------ helpers -------------------------------- *)
Max(a, b) == IF a >= b THEN a ELSE b
Min(a, b) == IF a <= b THEN a ELSE b

clamp(n, a, b) == Max(a, Min(b, n))

\* Math.round of the non-negative rational num/den
RoundDiv(num, den) == (2 * num + den) \div (2 * den)

\* arr rotated to the left by r positions
Rotate(arr, r) ==
  [i \in 1..Len(arr) |-> arr[((i - 1 + r) % Len(arr)) + 1]]

\* shuffle(arr): the Fisher-Yates shuffle returns a permutation of arr chosen
\* by Math.random; the outcomes explored are the rotations by 1..ShuffleChoices.
shuffle(arr) ==
  IF Len(arr) = 0 THEN {arr}
  ELSE {Rotate(arr, r) : r \in 1..Min(ShuffleChoices, Max(1, Len(arr) - 1))}

(* ------------------------------ layout --------------------------------- *)
Slot(gx, gy, z) == [gx |-> gx, gy |-> gy, z |-> z]

createLayoutPool ==
  << Slot(1,2,0), Slot(2,2,0), Slot(3,2,0), Slot(4,2,0),
     Slot(1,3,0), Slot(2,3,0), Slot(3,3,0), Slot(4,3,0),
     Slot(2,4,0), Slot(3,4,0), Slot(2,1,0), Slot(3,1,0),
     Slot(2,2,1), Slot(3,2,1), Slot(2,3,1), Slot(3,3,1),
     Slot(2,1,1), Slot(3,1,1), Slot(2,4,1), Slot(3,4,1),
     Slot(2,2,2), Slot(3,2,2), Slot(2,3,2), Slot(3,3,2),
     Slot(0,2,0), Slot(5,2,0), Slot(0,3,0), Slot(5,3,0),
     Slot(1,0,0), Slot(4,0,0), Slot(1,5,0), Slot(4,5,0),
     Slot(2,0,0), Slot(3,0,0), Slot(2,5,0), Slot(3,5,0),
     Slot(1,2,1), Slot(4,2,1), Slot(1,3,1), Slot(4,3,1),
     Slot(2,0,1), Slot(3,0,1), Slot(2,5,1), Slot(3,5,1),
     Slot(2,1,2), Slot(3,1,2), Slot(2,4,2), Slot(3,4,2),
     Slot(1,2,2), Slot(4,2,2),
     Slot(2,2,3), Slot(3,2,3) >>

SeqMin(f, n) == CHOOSE m \in {f[i] : i \in 1..n} : \A i \in 1..n : m <= f[i]

\* variant of buildLayout: the pool is the base block of 24 slots
buildLayoutBaseOnly(tileCount) ==
  LET pool   == SubSeq(createLayoutPool, 1, 24)
      n      == Min(tileCount, Len(pool))
      layout == SubSeq(pool, 1, n)
      stepX  == tileW * 102
      stepY  == tileH * 102
      minX   == SeqMin([i \in 1..n |-> layout[i].gx], n)
      minY   == SeqMin([i \in 1..n |-> layout[i].gy], n)
      pad    == 100 * Max(18, RoundDiv(tileW * 25, 100))
  IN  [i \in 1..n |->
         [tileId |-> i - 1,
          x |-> pad + (layout[i].gx - minX) * stepX,
          y |-> pad + (layout[i].gy - minY) * stepY,
          z |-> layout[i].z]]

\* variant of buildLayout: the columns lie half a tile apart
buildLayoutHalfStep(tileCount) ==
  LET pool   == createLayoutPool
      n      == Min(tileCount, Len(pool))
      layout == SubSeq(pool, 1, n)
      stepX  == tileW * 50
      stepY  == tileH * 102
      minX   == SeqMin([i \in 1..n |-> layout[i].gx], n)
      minY   == SeqMin([i \in 1..n |-> layout[i].gy], n)
      pad    == 100 * Max(18, RoundDiv(tileW * 25, 100))
  IN  [i \in 1..n |->
         [tileId |-> i - 1,
          x |-> pad + (layout[i].gx - minX) * stepX,
          y |-> pad + (layout[i].gy - minY) * stepY,
          z |-> layout[i].z]]

\* buildLayout(tileW, tileH, level, tileCount).positionsPx
buildLayout(tileCount) ==
  LET pool   == createLayoutPool
      n      == Min(tileCount, Len(pool))
      layout == SubSeq(pool, 1, n)
      stepX  == tileW * 102
      stepY  == tileH * 102
      minX   == SeqMin([i \in 1..n |-> layout[i].gx], n)
      minY   == SeqMin([i \in 1..n |-> layout[i].gy], n)
      pad    == 100 * Max(18, RoundDiv(tileW * 25, 100))
  IN  [i \in 1..n |->
         [tileId |-> i - 1,
          x |-> pad + (layout[i].gx - minX) * stepX,
          y |-> pad + (layout[i].gy - minY) * stepY,
          z |-> layout[i].z]]

(* ------------------------- occlusion solver ---------------------------- *)
zOffsetX == tileW * 8
zOffsetY == tileH * 7

rectsOverlapAny(r1, r2) ==
  ~ (\/ r2.left >= r1.right
     \/ r2.right <= r1.left
     \/ r2.top >= r1.bottom
     \/ r2.bottom <= r1.top)

tileRectBase(t) ==
  LET pad  == 100 * Max(1, RoundDiv(tileW * 2, 100))
      left == t.x + t.z * zOffsetX
      top  == t.y - t.z * zOffsetY
  IN  [left |-> left + pad, top |-> top + pad,
       right |-> left + 100 * tileW - pad,
       bottom |-> top + 100 * tileH - pad]

\* variant of FirstBlocker: tiles of lower layers block too
FirstBlockerAnyLayer(alive, i) ==
  LET hits == {j \in 1..Len(alive) :
                 /\ alive[j].tileId # alive[i].tileId
                 /\ rectsOverlapAny(tileRectBase(alive[i]), tileRectBase(alive[j]))}
  IN  IF hits = {} THEN 0 ELSE CHOOSE j \in hits : \A k \in hits : j <= k

\* first pass of computeTileStatus: index (in alive order) of the first other
\* tile that overlaps alive[i] and lies in the same or a higher layer; 0 if none
FirstBlocker(alive, i) ==
  LET hits == {j \in 1..Len(alive) :
                 /\ alive[j].tileId # alive[i].tileId
                 /\ rectsOverlapAny(tileRectBase(alive[i]), tileRectBase(alive[j]))
                 /\ alive[j].z >= alive[i].z}
  IN  IF hits = {} THEN 0 ELSE CHOOSE j \in hits : \A k \in hits : j <= k

\* variant of hasLeftNeighbor: the distance to the neighbour is not tested
hasLeftNeighborAnyGap(alive, i, sideGap) ==
  \E j \in 1..Len(alive) :
    LET rt == tileRectBase(alive[i])
        ro == tileRectBase(alive[j])
    IN  /\ alive[j].tileId # alive[i].tileId
        /\ alive[j].z = alive[i].z
        /\ Min(rt.bottom, ro.bottom) - Max(rt.top, ro.top) > 0
        /\ ro.right <= rt.left

hasLeftNeighbor(alive, i, sideGap) ==
  \E j \in 1..Len(alive) :
    LET rt == tileRectBase(alive[i])
        ro == tileRectBase(alive[j])
    IN  /\ alive[j].tileId # alive[i].tileId
        /\ alive[j].z = alive[i].z
        /\ Min(rt.bottom, ro.bottom) - Max(rt.top, ro.top) > 0
        /\ ro.right <= rt.left
        /\ rt.left - ro.right <= sideGap

hasRightNeighbor(alive, i, sideGap) ==
  \E j \in 1..Len(alive) :
    LET rt == tileRectBase(alive[i])
        ro == tileRectBase(alive[j])
    IN  /\ alive[j].tileId # alive[i].tileId
        /\ alive[j].z = alive[i].z
        /\ Min(rt.bottom, ro.bottom) - Max(rt.top, ro.top) > 0
        /\ ro.left >= rt.right
        /\ ro.left - rt.right <= sideGap

\* reason given to alive[i] by computeTileStatus ("free" when it is in the free set)
TileReason(alive, i, sideGapFactor100) ==
  LET b == FirstBlocker(alive, i)
      sideGap == tileW * sideGapFactor100
  IN  IF b # 0
      THEN IF alive[b].z > alive[i].z THEN "blocked:overlap-above"
                                      ELSE "blocked:overlap-same"
      ELSE IF hasLeftNeighbor(alive, i, sideGap) /\ hasRightNeighbor(alive, i, sideGap)
           THEN "blocked:lateral"
           ELSE "free"

\* blockedFromTop of computeTileStatus
blockedFromTop(alive) ==
  {alive[i].tileId : i \in {k \in 1..Len(alive) :
      FirstBlocker(alive, k) # 0 /\ alive[FirstBlocker(alive, k)].z > alive[k].z}}

\* blockedSameLayer of computeTileStatus
blockedSameLayer(alive) ==
  {alive[i].tileId : i \in {k \in 1..Len(alive) :
      FirstBlocker(alive, k) # 0 /\ alive[FirstBlocker(alive, k)].z = alive[k].z}}

\* computeTileStatus(aliveTiles, ...).reasonById: the first pass sets the
\* overlap reasons, the second pass sets blocked:lateral for the tiles it does
\* not skip and does not add to free
reasonById(alive, sideGapFactor100) ==
  LET sideGap == tileW * sideGapFactor100
      lateral == {alive[i].tileId : i \in {k \in 1..Len(alive) :
                    /\ alive[k].tileId \notin blockedFromTop(alive)
                    /\ alive[k].tileId \notin blockedSameLayer(alive)
                    /\ hasLeftNeighbor(alive, k, sideGap)
                    /\ hasRightNeighbor(alive, k, sideGap)}}
  IN  [id \in blockedFromTop(alive) \cup blockedSameLayer(alive) \cup lateral |->
         IF id \in lateral THEN "blocked:lateral"
         ELSE IF id \in blockedSameLayer(alive) THEN "blocked:overlap-same"
         ELSE "blocked:overlap-above"]

\* variant of computeTileStatus: the second pass does not skip the tiles the
\* first pass blocked
computeTileStatusNoSkip(alive, sideGapFactor100) ==
  {alive[i].tileId : i \in {k \in 1..Len(alive) :
      ~(/\ hasLeftNeighbor(alive, k, tileW * sideGapFactor100)
        /\ hasRightNeighbor(alive, k, tileW * sideGapFactor100))}}

\* computeTileStatus(aliveTiles, ...).free, as a set of tile ids
computeTileStatus(alive, sideGapFactor100) ==
  {alive[i].tileId : i \in {k \in 1..Len(alive) :
                              TileReason(alive, k, sideGapFactor100) = "free"}}

(* --------------------------- level configurator ------------------------ *)
\* levelConfig: coverRate and sideGapFactor are kept in hundredths
levelConfig(level) ==
  [tileCount |-> clamp(24 + (level - 1) * 2, 24, 50),
   sideGapFactor |-> 18,
   coverRate |-> clamp((level - 1) * 6, 0, 45)]

\* positionsPx memo: the layout of the level. The modelled board is cut to
\* 2*NumPairs slots of the pool to keep the state space finite.
positionsPx(level) ==
  buildLayout(Min(levelConfig(level).tileCount, 2 * NumPairs))

(* ------------------------------- state --------------------------------- *)
VARIABLES
  uiStep,        \* "intro" | "levels" | "game"
  hasStarted,
  currentLevel,
  gameState,     \* "playing" | "win" | "lose"
  tiles,         \* sequence of tile records
  tray,          \* sequence of tray entries
  history,       \* stack of snapshots [tiles, tray, gameState]
  moveCount,
  timeouts,      \* pending callbacks registered in timeoutsRef
  elapsedSec, lastMerits, totalMerits,
  lastInsert     \* history variable: the state the latest tray insertion started from

vars == <<uiStep, hasStarted, currentLevel, gameState, tiles, tray, history,
          moveCount, timeouts, elapsedSec, lastMerits, totalMerits, lastInsert>>

\* the state the win effect reads and writes besides moveCount
meritVars == <<elapsedSec, lastMerits, totalMerits>>

\* useState(null) of lastMerits
NoMerits == -1

\* value of lastInsert when the latest player action was not a tray insertion
NoInsert == [valid |-> FALSE, tiles |-> <<>>, tray |-> <<>>, gameState |-> "playing"]

\* symbol catalog (ids of letters.json in alphabet order)
letters ==
  <<"alef", "bet", "gimel", "dalet", "he", "vav", "zayin", "chet", "tet", "yod">>

\* letters.slice(0, 10) in initGame; the model draws from the first LetterPoolSize
level1Letters == SubSeq(letters, 1, Min(LetterPoolSize, Len(letters)))

\* variant of aliveTiles: a tile counts until it is removed
aliveTilesUntilRemoved(tl) == SelectSeq(tl, LAMBDA t : ~t.removed)

\* aliveTiles memo
aliveTiles(tl) == SelectSeq(tl, LAMBDA t : ~t.removed /\ ~t.animatingOut)

\* freeTileIds memo
freeTileIds(tl, level) ==
  computeTileStatus(aliveTiles(tl), levelConfig(level).sideGapFactor)

\* JSON.parse(JSON.stringify(v)): tiles and tray entries hold only finite
\* numbers, strings and booleans, which the round trip reproduces field by field
JsonClone(v) == [i \in 1..Len(v) |-> [f \in DOMAIN v[i] |-> v[i][f]]]

\* the snapshot pushHistory appends
Snapshot(nextTiles, nextTray, nextGameState) ==
  [tiles |-> JsonClone(nextTiles), tray |-> JsonClone(nextTray),
   gameState |-> nextGameState]

\* variant of pushHistory: only the latest snapshot is kept
pushHistorySingle(hist, nextTiles, nextTray, nextGameState) ==
  <<Snapshot(nextTiles, nextTray, nextGameState)>>

pushHistory(hist, nextTiles, nextTray, nextGameState) ==
  Append(hist, Snapshot(nextTiles, nextTray, nextGameState))

(* ------------------------- scheduled callbacks ------------------------- *)
\* a pending callback; at = moveCount of the activation that scheduled it
RemoveTimer(tileId, at) == [kind |-> "remove", tileId |-> tileId, ids |-> {}, at |-> at]
ClearTimer(ids, at)     == [kind |-> "clear", tileId |-> -1, ids |-> ids, at |-> at]
BannerTimer(at)         == [kind |-> "banner", tileId |-> -1, ids |-> {}, at |-> at]

Delay(tm) ==
  CASE tm.kind = "remove" -> BOARD_REMOVE_MS
    [] tm.kind = "clear"  -> TRAY_MATCH_MS
    [] tm.kind = "banner" -> WIN_BANNER_MS

\* setTimeout ordering: a callback scheduled no later and with no longer delay
\* fires first
CanFire(tm) ==
  /\ tm \in timeouts
  /\ \A o \in timeouts \ {tm} : ~(o.at <= tm.at /\ Delay(o) <= Delay(tm))

(* ------------------------------ effects -------------------------------- *)
\* variant of WinCheck: the effect sets playing whenever tiles are left
WinCheckResets(started, gs, tl) ==
  IF started /\ Len(aliveTiles(tl)) = 0 THEN "win"
  ELSE IF started THEN "playing" ELSE gs

\* variant of WinCheck: only removed tiles count as gone
WinCheckRemovedOnly(started, gs, tl) ==
  IF started /\ gs = "playing" /\ Len(SelectSeq(tl, LAMBDA t : ~t.removed)) = 0
  THEN "win" ELSE gs

\* win-condition effect: state after the render that follows a handler
WinCheck(started, gs, tl) ==
  IF started /\ gs = "playing" /\ Len(aliveTiles(tl)) = 0 THEN "win" ELSE gs

(* ---------------------- IEEE-754 double arithmetic --------------------- *)
\* A JavaScript number is kept exactly: its magnitude is a natural number of
\* units 2^-70, written in limbs of 14 bits (least significant limb first), and
\* every operation rounds its exact result to 53 significant bits, ties to even.
Limb == 16384

\* the element of a one-element set; {e : v \in {d}} names the value of d in e
Val(S) == CHOOSE r \in S : TRUE

LimbAt(a, i) == IF i >= 1 /\ i <= Len(a) THEN a[i] ELSE 0

RECURSIVE Pow2(_)
Pow2(k) == IF k = 0 THEN 1 ELSE 2 * Pow2(k - 1)

RECURSIVE BigAddFrom(_, _, _, _)
\* limbs i.. of a + b, with carry into limb i
BigAddFrom(a, b, i, carry) ==
  IF i > Max(Len(a), Len(b)) THEN <<carry>>
  ELSE Val({<<s % Limb>> \o BigAddFrom(a, b, i + 1, s \div Limb)
            : s \in {LimbAt(a, i) + LimbAt(b, i) + carry}})

BigAdd(a, b) == Val({BigAddFrom(av, bv, 1, 0) : av \in {a}, bv \in {b}})

RECURSIVE BigSubFrom(_, _, _, _)
\* limbs i.. of a - b, with borrow out of limb i - 1
BigSubFrom(a, b, i, borrow) ==
  IF i > Len(a) THEN <<>>
  ELSE Val({<<(d + Limb) % Limb>>
              \o BigSubFrom(a, b, i + 1, IF d < 0 THEN 1 ELSE 0)
            : d \in {LimbAt(a, i) - LimbAt(b, i) - borrow}})

\* a - b for a >= b
BigSub(a, b) == Val({BigSubFrom(av, bv, 1, 0) : av \in {a}, bv \in {b}})

RECURSIVE BigCmpFrom(_, _, _)
BigCmpFrom(a, b, i) ==
  IF i = 0 THEN 0
  ELSE IF LimbAt(a, i) < LimbAt(b, i) THEN -1
  ELSE IF LimbAt(a, i) > LimbAt(b, i) THEN 1
  ELSE BigCmpFrom(a, b, i - 1)

\* -1, 0 or 1 as a is below, equal to or above b
BigCmp(a, b) ==
  Val({BigCmpFrom(av, bv, Max(Len(av), Len(bv))) : av \in {a}, bv \in {b}})

RECURSIVE BigColumn(_, _, _, _)
\* sum of the limb products a[i] * b[k + 1 - i] for i in 1..n
BigColumn(a, b, k, n) ==
  IF n = 0 THEN 0
  ELSE LimbAt(a, n) * LimbAt(b, k + 1 - n) + BigColumn(a, b, k, n - 1)

RECURSIVE BigMulFrom(_, _, _, _)
\* limbs k.. of a * b, with carry into limb k
BigMulFrom(a, b, k, carry) ==
  IF k > Len(a) + Len(b) THEN <<>>
  ELSE Val({<<c % Limb>> \o BigMulFrom(a, b, k + 1, c \div Limb)
            : c \in {BigColumn(a, b, k, Min(k, Len(a))) + carry}})

BigMul(a, b) == Val({BigMulFrom(av, bv, 1, 0) : av \in {a}, bv \in {b}})

RECURSIVE BigTop(_, _)
\* index of the highest limb of a that is not zero, 0 for a = 0
BigTop(a, i) == IF i = 0 THEN 0 ELSE IF a[i] # 0 THEN i ELSE BigTop(a, i - 1)

RECURSIVE BitsOf(_)
BitsOf(x) == IF x = 0 THEN 0 ELSE 1 + BitsOf(x \div 2)

BitLen(a) ==
  Val({Val({IF t = 0 THEN 0 ELSE 14 * (t - 1) + BitsOf(av[t])
            : t \in {BigTop(av, Len(av))}})
       : av \in {a}})

\* 2^k
BigPow2(k) ==
  Val({[i \in 1..(kv \div 14 + 1) |->
          IF i = kv \div 14 + 1 THEN Pow2(kv % 14) ELSE 0]
       : kv \in {k}})

\* a mod 2^k
BigLow(a, k) ==
  Val({[i \in 1..Len(av) |->
          IF i <= kv \div 14 THEN av[i]
          ELSE IF i = kv \div 14 + 1 THEN av[i] % Pow2(kv % 14)
          ELSE 0]
       : av \in {a}, kv \in {k}})

BitAt(a, k) ==
  Val({(LimbAt(a, kv \div 14 + 1) \div Pow2(kv % 14)) % 2 : kv \in {k}})

\* a with its drop lowest bits rounded off, ties to even; sticky tells that the
\* exact value lies above a
RoundAt(a, drop, sticky) ==
  IF drop <= 0 THEN a
  ELSE Val({Val({IF c = 1 \/ (c = 0 /\ (sticky \/ BitAt(a, drop) = 1))
                 THEN BigAdd(BigSub(a, low), BigPow2(drop))
                 ELSE BigSub(a, low)
                 : c \in {BigCmp(low, BigPow2(drop - 1))}})
            : low \in {BigLow(a, drop)}})

\* a rounded to 53 significant bits
RoundBig(a, sticky) ==
  Val({Val({RoundAt(av, drop, sticky) : drop \in {BitLen(av) - 53}})
       : av \in {a}})

\* the number n for an integer n
DInt(n) == [neg |-> n < 0, mag |-> <<0, 0, 0, 0, 0, IF n < 0 THEN -n ELSE n>>]

\* the literals of the win effect
D0_5  == [neg |-> FALSE, mag |-> <<0, 0, 0, 0, 8192>>]
D0_35 == [neg |-> FALSE, mag |-> <<0, 6552, 9830, 6553, 5734>>]
D0_65 == [neg |-> FALSE, mag |-> <<0, 9832, 6553, 9830, 10649>>]
D0_85 == [neg |-> FALSE, mag |-> <<0, 6552, 9830, 6553, 13926>>]
D0_7  == [neg |-> FALSE, mag |-> <<0, 13104, 3276, 13107, 11468>>]
D0_55 == [neg |-> FALSE, mag |-> <<0, 3280, 13107, 3276, 9011>>]
D0_4  == [neg |-> FALSE, mag |-> <<0, 9832, 6553, 9830, 6553>>]
D0_1  == [neg |-> FALSE, mag |-> <<0, 6554, 9830, 6553, 1638>>]

\* x + y
DAdd(x, y) ==
  Val({IF xv.neg = yv.neg
       THEN [neg |-> xv.neg, mag |-> RoundBig(BigAdd(xv.mag, yv.mag), FALSE)]
       ELSE IF BigCmp(xv.mag, yv.mag) >= 0
            THEN [neg |-> xv.neg, mag |-> RoundBig(BigSub(xv.mag, yv.mag), FALSE)]
            ELSE [neg |-> yv.neg, mag |-> RoundBig(BigSub(yv.mag, xv.mag), FALSE)]
       : xv \in {x}, yv \in {y}})

\* x - y
DSub(x, y) == Val({DAdd(x, [neg |-> ~yv.neg, mag |-> yv.mag]) : yv \in {y}})

\* x * y: the exact product has units 2^-140; the five low limbs of its rounded
\* value are zero
DMul(x, y) ==
  Val({Val({[neg |-> xv.neg # yv.neg, mag |-> SubSeq(p, 6, Len(p))]
            : p \in {RoundBig(BigMul(xv.mag, yv.mag), FALSE)}})
       : xv \in {x}, yv \in {y}})

RECURSIVE DivRem(_, _, _)
\* remainder of the limbs of a above position i on division by d
DivRem(a, d, i) ==
  IF i > Len(a) THEN 0 ELSE (DivRem(a, d, i + 1) * Limb + a[i]) % d

\* n / d for integers n >= 0 and d > 0
DDiv(n, d) ==
  Val({[neg |-> FALSE,
        mag |-> RoundBig([i \in 1..Len(a) |->
                            (DivRem(a, dv, i + 1) * Limb + a[i]) \div dv],
                         DivRem(a, dv, 1) # 0)]
       : a \in {DInt(n).mag}, dv \in {d}})

\* x >= y
DGeq(x, y) ==
  Val({IF BitLen(xv.mag) = 0 /\ BitLen(yv.mag) = 0 THEN TRUE
       ELSE IF xv.neg # yv.neg THEN yv.neg
       ELSE IF xv.neg THEN BigCmp(xv.mag, yv.mag) <= 0
       ELSE BigCmp(xv.mag, yv.mag) >= 0
       : xv \in {x}, yv \in {y}})

\* clamp(n, a, b) on numbers: Math.max(a, Math.min(b, n))
DClamp(n, a, b) ==
  Val({Val({IF DGeq(a, lo) THEN a ELSE lo
            : lo \in {IF DGeq(nv, b) THEN b ELSE nv}})
       : nv \in {n}})

\* Math.round(x) for x >= 0: the nearest integer, ties upwards
DRound(x) ==
  Val({LimbAt(xv.mag, 6)
         + (IF BigCmp(BigLow(xv.mag, 70), D0_5.mag) >= 0 THEN 1 ELSE 0)
       : xv \in {x}})

\* merits of the win effect for elapsedSec e, moveCount m and currentLevel
earnedMerits(e, m, level) ==
  LET timeTarget == 90 + (level - 1) * 15
      moveTarget == 20 + (level - 1) * 3
      timeRatio  == DDiv(e, timeTarget)
      moveRatio  == DDiv(m, moveTarget)
      scoreTime  == DClamp(DSub(DInt(1), DMul(DSub(timeRatio, DInt(1)), D0_5)),
                           DInt(0), DInt(1))
      scoreMoves == DClamp(DSub(DInt(1), DMul(DSub(moveRatio, DInt(1)), D0_5)),
                           DInt(0), DInt(1))
      levelMultiplier == DAdd(DInt(1), DMul(DInt(level - 1), D0_1))
  IN  Val({LET baseMerits == IF DGeq(scoreFinal, D0_85) THEN 10
                             ELSE IF DGeq(scoreFinal, D0_7) THEN 8
                             ELSE IF DGeq(scoreFinal, D0_55) THEN 6
                             ELSE IF DGeq(scoreFinal, D0_4) THEN 4
                             ELSE 2
           IN  DRound(DMul(DInt(baseMerits), levelMultiplier))
           : scoreFinal \in {DAdd(DMul(scoreTime, D0_35), DMul(scoreMoves, D0_65))}})

\* the literals of levelConfig
D0_06 == [neg |-> FALSE, mag |-> <<0, 3932, 5898, 655, 983>>]
D0_45 == [neg |-> FALSE, mag |-> <<0, 13108, 3276, 13107, 7372>>]

\* levelConfig.coverRate as the number the code computes
coverRateNumber(level) == DClamp(DMul(DInt(level - 1), D0_06), DInt(0), D0_45)

\* coverCount of initGame for n pair ids: Math.round(n * levelConfig.coverRate)
coverCount(n, level) == DRound(DMul(DInt(n), coverRateNumber(level)))

\* win effect: merits granted when gameState turns to win; e and m are the
\* elapsedSec and moveCount of the render in which gameState is win
WinEffectMerits(gsBefore, gsAfter, e, m) ==
  IF gsBefore # "win" /\ gsAfter = "win"
  THEN /\ lastMerits' = earnedMerits(e, m, currentLevel)
       /\ totalMerits' = totalMerits + lastMerits'
       /\ UNCHANGED elapsedSec
  ELSE UNCHANGED meritVars

\* win effect: callbacks registered when gameState turns to win
WinEffectTimers(gsBefore, gsAfter, at) ==
  IF gsBefore # "win" /\ gsAfter = "win" THEN {BannerTimer(at)} ELSE {}

(* ------------------------------- initGame ------------------------------ *)
RECURSIVE BuildBase(_, _)
\* the while loop of initGame: all pair pools of twoPairCount/2 symbols
BuildBase(base, twoPairCount) ==
  IF 2 * Len(base) >= twoPairCount THEN {base}
  ELSE UNION { BuildBase(
                 base \o SubSeq(chunk, 1,
                   Min(Len(chunk), (twoPairCount + 1) \div 2 - Len(base))),
                 twoPairCount)
               : chunk \in shuffle(level1Letters) }

\* variant of NewTilesOn: the pool holds one symbol per slot and is not duplicated
NewTilesOnSingles(layout, level) ==
  LET n == Len(layout)
  IN  UNION {
        UNION {
          { [idx \in 1..n |->
               [tileId |-> layout[idx].tileId,
                letterId |-> pairIds[idx],
                x |-> layout[idx].x, y |-> layout[idx].y, z |-> layout[idx].z,
                removed |-> FALSE, animatingOut |-> FALSE,
                covered |-> \E k \in 1..RoundDiv(Len(pairIds) * levelConfig(level).coverRate, 100) :
                               order[k] = idx - 1]]
            : order \in shuffle([i \in 1..Len(pairIds) |-> i - 1]) }
          : pairIds \in shuffle(base) }
        : base \in BuildBase(<<>>, 2 * n) }

\* the tile lists initGame can produce on a layout at a level
NewTilesOn(layout, level) ==
  LET n == Len(layout)
  IN  UNION {
        UNION {
          { [idx \in 1..n |->
               [tileId |-> layout[idx].tileId,
                letterId |-> pairIds[idx],
                x |-> layout[idx].x, y |-> layout[idx].y, z |-> layout[idx].z,
                removed |-> FALSE, animatingOut |-> FALSE,
                covered |-> \E k \in 1..RoundDiv(Len(pairIds) * levelConfig(level).coverRate, 100) :
                               order[k] = idx - 1]]
            : order \in shuffle([i \in 1..Len(pairIds) |-> i - 1]) }
          : pairIds \in shuffle(base \o base) }
        : base \in BuildBase(<<>>, n) }

\* the tile lists initGame can produce for a level
NewTiles(level) == NewTilesOn(positionsPx(level), level)

Init ==
  /\ uiStep = "intro"
  /\ hasStarted = FALSE
  /\ currentLevel = 1
  /\ gameState = "playing"
  /\ tiles = <<>>
  /\ tray = <<>>
  /\ history = <<>>
  /\ moveCount = 0
  /\ timeouts = {}
  /\ lastInsert = NoInsert
  /\ elapsedSec = 0
  /\ lastMerits = NoMerits
  /\ totalMerits = 0

(* ---------------------------- navigation ------------------------------- *)
openLevels ==
  /\ uiStep = "intro"
  /\ uiStep' = "levels"
  /\ UNCHANGED <<hasStarted, currentLevel, gameState, tiles, tray, history,
                 moveCount, timeouts, lastInsert>>
  /\ UNCHANGED meritVars

setLevel(lvl) ==
  /\ uiStep = "levels"
  /\ currentLevel' = lvl
  /\ UNCHANGED <<uiStep, hasStarted, gameState, tiles, tray, history,
                 moveCount, timeouts, lastInsert>>
  /\ UNCHANGED meritVars

\* "JUGAR NIVEL SELECCIONADO": setHasStarted(true); setUiStep("game"); initGame()
startGameOn(layout) ==
  /\ uiStep = "levels"
  /\ hasStarted' = TRUE
  /\ uiStep' = "game"
  /\ timeouts' = {}
  /\ tiles' \in NewTilesOn(layout, currentLevel)
  /\ tray' = <<>>
  /\ history' = <<>>
  /\ gameState' = "playing"
  /\ moveCount' = 0
  /\ lastInsert' = NoInsert
  /\ UNCHANGED currentLevel
  /\ totalMerits < MaxTotalMerits
  /\ elapsedSec' = 0
  /\ UNCHANGED <<lastMerits, totalMerits>>

\* the session is started on the layout of the selected level
startGame == startGameOn(positionsPx(currentLevel))

\* variant of goToIntro: the pending callbacks are not cancelled
goToIntroKeepsCallbacks ==
  /\ timeouts' = timeouts
  /\ hasStarted' = FALSE
  /\ uiStep' = "intro"
  /\ tiles' = <<>>
  /\ tray' = <<>>
  /\ history' = <<>>
  /\ gameState' = "playing"
  /\ lastInsert' = NoInsert
  /\ UNCHANGED <<currentLevel, moveCount>>
  /\ UNCHANGED meritVars

goToIntro ==
  /\ timeouts' = {}
  /\ hasStarted' = FALSE
  /\ uiStep' = "intro"
  /\ tiles' = <<>>
  /\ tray' = <<>>
  /\ history' = <<>>
  /\ gameState' = "playing"
  /\ lastInsert' = NoInsert
  /\ UNCHANGED <<currentLevel, moveCount>>
  /\ UNCHANGED meritVars

(* -------------------------------- tray --------------------------------- *)
TrayEntry(trayId, tileId, letterId) ==
  [trayId |-> trayId, tileId |-> tileId, letterId |-> letterId, matchedOut |-> FALSE]

SetMin(S) == CHOOSE m \in S : \A k \in S : m <= k

\* counts.get(letterId): entries of this symbol that are not matchedOut
counts(nextTray, letterId) ==
  Cardinality({i \in 1..Len(nextTray) :
                 ~nextTray[i].matchedOut /\ nextTray[i].letterId = letterId})

\* counts.entries() runs in insertion order: the positions where the first loop
\* sets a key for the first time
countsKeys(nextTray) ==
  {i \in 1..Len(nextTray) :
     /\ ~nextTray[i].matchedOut
     /\ \A j \in 1..(i - 1) :
          nextTray[j].matchedOut \/ nextTray[j].letterId # nextTray[i].letterId}

\* ids: trayIds of the first two entries of the symbol that are not matchedOut
pairIds(nextTray, letterId) ==
  LET same == {i \in 1..Len(nextTray) :
                 nextTray[i].letterId = letterId /\ ~nextTray[i].matchedOut}
  IN  IF Cardinality(same) < 2 THEN {nextTray[i].trayId : i \in same}
      ELSE {nextTray[SetMin(same)].trayId,
            nextTray[SetMin(same \ {SetMin(same)})].trayId}

\* variant of tryRemovePairInTray: the counting loop does not skip matchedOut
\* entries
tryRemovePairInTrayCountsMatched(nextTray) ==
  LET all(l) == Cardinality({i \in 1..Len(nextTray) : nextTray[i].letterId = l})
      keys == {i \in 1..Len(nextTray) :
                 \A j \in 1..(i - 1) : nextTray[j].letterId # nextTray[i].letterId}
      hits == {i \in keys : all(nextTray[i].letterId) >= 2}
  IN  IF hits = {} THEN [tray |-> nextTray, ids |-> {}]
      ELSE LET ids == pairIds(nextTray, nextTray[SetMin(hits)].letterId)
           IN  IF Cardinality(ids) < 2 THEN [tray |-> nextTray, ids |-> {}]
               ELSE [tray |-> [i \in 1..Len(nextTray) |->
                                 IF nextTray[i].trayId \in ids
                                 THEN [nextTray[i] EXCEPT !.matchedOut = TRUE]
                                 ELSE nextTray[i]],
                     ids |-> ids]

\* variant of tryRemovePairInTray: a symbol is resolved only with three entries
tryRemovePairInTrayNeedsThree(nextTray) ==
  LET hits == {i \in countsKeys(nextTray) :
                 counts(nextTray, nextTray[i].letterId) >= 3}
  IN  IF hits = {} THEN [tray |-> nextTray, ids |-> {}]
      ELSE LET ids == pairIds(nextTray, nextTray[SetMin(hits)].letterId)
           IN  IF Cardinality(ids) < 2 THEN [tray |-> nextTray, ids |-> {}]
               ELSE [tray |-> [i \in 1..Len(nextTray) |->
                                 IF nextTray[i].trayId \in ids
                                 THEN [nextTray[i] EXCEPT !.matchedOut = TRUE]
                                 ELSE nextTray[i]],
                     ids |-> ids]

\* tryRemovePairInTray(nextTray): the returned tray and the trayIds handed to
\* the pair-clear callback (empty when no pair was found)
tryRemovePairInTray(nextTray) ==
  LET hits == {i \in countsKeys(nextTray) :
                 counts(nextTray, nextTray[i].letterId) >= 2}
  IN  IF hits = {} THEN [tray |-> nextTray, ids |-> {}]
      ELSE LET ids == pairIds(nextTray, nextTray[SetMin(hits)].letterId)
           IN  IF Cardinality(ids) < 2 THEN [tray |-> nextTray, ids |-> {}]
               ELSE [tray |-> [i \in 1..Len(nextTray) |->
                                 IF nextTray[i].trayId \in ids
                                 THEN [nextTray[i] EXCEPT !.matchedOut = TRUE]
                                 ELSE nextTray[i]],
                     ids |-> ids]

(* ------------------------------ pickTile ------------------------------- *)
\* tiles.find((x) => x.tileId === tileId): index of the tile, 0 when missing
FindTile(tl, tileId) ==
  IF \E i \in 1..Len(tl) : tl[i].tileId = tileId
  THEN SetMin({i \in 1..Len(tl) : tl[i].tileId = tileId})
  ELSE 0

\* variant of PickIgnored: the free-set check is missing
PickIgnoredNoFreeCheck(tileId) ==
  \/ gameState # "playing"
  \/ FindTile(tiles, tileId) = 0
  \/ tiles[FindTile(tiles, tileId)].removed
  \/ tiles[FindTile(tiles, tileId)].animatingOut

\* the early returns of pickTile that leave everything as it is
PickIgnored(tileId) ==
  \/ gameState # "playing"
  \/ FindTile(tiles, tileId) = 0
  \/ tiles[FindTile(tiles, tileId)].removed
  \/ tiles[FindTile(tiles, tileId)].animatingOut
  \/ tileId \notin freeTileIds(tiles, currentLevel)

\* variant of PickReveal: a snapshot is pushed before uncovering
PickRevealSnapshots(tileId) ==
  /\ tiles' = [i \in 1..Len(tiles) |->
                 IF tiles[i].tileId = tileId
                 THEN [tiles[i] EXCEPT !.covered = FALSE] ELSE tiles[i]]
  /\ history' = pushHistory(history, tiles, tray, gameState)
  /\ gameState' = WinCheck(hasStarted, gameState, tiles')
  /\ timeouts' = timeouts \cup WinEffectTimers(gameState, gameState', moveCount)
  /\ lastInsert' = NoInsert
  /\ UNCHANGED <<uiStep, hasStarted, currentLevel, tray, moveCount>>
  /\ WinEffectMerits(gameState, gameState', elapsedSec, moveCount')

\* covered tile: only uncover it
PickReveal(tileId) ==
  /\ tiles' = [i \in 1..Len(tiles) |->
                 IF tiles[i].tileId = tileId
                 THEN [tiles[i] EXCEPT !.covered = FALSE] ELSE tiles[i]]
  /\ gameState' = WinCheck(hasStarted, gameState, tiles')
  /\ timeouts' = timeouts \cup WinEffectTimers(gameState, gameState', moveCount)
  /\ lastInsert' = NoInsert
  /\ UNCHANGED <<uiStep, hasStarted, currentLevel, tray, history, moveCount>>
  /\ WinEffectMerits(gameState, gameState', elapsedSec, moveCount')

\* variant of PickOverflow: the early tray check is missing and only the late
\* check after the append reports the loss
PickOverflowAdds(tileId) ==
  /\ gameState' = "lose"
  /\ tiles' = [i \in 1..Len(tiles) |->
                 IF tiles[i].tileId = tileId
                 THEN [tiles[i] EXCEPT !.animatingOut = TRUE] ELSE tiles[i]]
  /\ tray' = Append(tray, [trayId |-> moveCount + 1, tileId |-> tileId,
                           letterId |-> tiles[CHOOSE i \in 1..Len(tiles) :
                                                tiles[i].tileId = tileId].letterId,
                           matchedOut |-> FALSE])
  /\ lastInsert' = NoInsert
  /\ UNCHANGED <<uiStep, hasStarted, currentLevel, history, moveCount, timeouts>>
  /\ UNCHANGED meritVars

\* full tray: lose, nothing is added
PickOverflow(tileId) ==
  /\ gameState' = "lose"
  /\ lastInsert' = NoInsert
  /\ UNCHANGED <<uiStep, hasStarted, currentLevel, tiles, tray, history,
                 moveCount, timeouts>>
  /\ UNCHANGED meritVars

\* the tile leaves the board and enters the tray; the model lets it happen
\* only below maxMoves counted moves and maxPending pending callbacks
PickInsertBounded(tileId, maxMoves, maxPending) ==
  LET t == tiles[FindTile(tiles, tileId)]
      nextTiles == [i \in 1..Len(tiles) |->
                      IF tiles[i].tileId = tileId
                      THEN [tiles[i] EXCEPT !.animatingOut = TRUE] ELSE tiles[i]]
      nextTray == Append(tray, TrayEntry(moveCount + 1, tileId, t.letterId))
      cleaned == tryRemovePairInTray(nextTray)
  IN  /\ history' = pushHistory(history, tiles, tray, gameState)
      /\ lastInsert' = [valid |-> TRUE, tiles |-> tiles, tray |-> tray,
                        gameState |-> gameState]
      /\ IF Len(nextTray) > TRAY_LIMIT
         THEN /\ tiles' = nextTiles
              /\ tray' = nextTray
              /\ gameState' = "lose"
              /\ UNCHANGED <<moveCount, timeouts>>
         ELSE /\ moveCount < maxMoves
              /\ Cardinality(timeouts) < maxPending
              /\ tiles' = nextTiles
              /\ tray' = cleaned.tray
              /\ moveCount' = moveCount + 1
              /\ gameState' = WinCheck(hasStarted, gameState, nextTiles)
              /\ timeouts' =
                   timeouts
                   \cup (IF cleaned.ids = {} THEN {}
                         ELSE {ClearTimer(cleaned.ids, moveCount + 1)})
                   \cup {RemoveTimer(tileId, moveCount + 1)}
                   \cup WinEffectTimers(gameState, gameState', moveCount + 1)
      /\ UNCHANGED <<uiStep, hasStarted, currentLevel>>
      /\ WinEffectMerits(gameState, gameState', elapsedSec, moveCount')

PickInsert(tileId) == PickInsertBounded(tileId, MaxMoves, MaxPending)

\* variant of pickTile: the tray check tests > instead of >=
pickTileLateCheck(tileId) ==
  /\ uiStep = "game"
  /\ IF PickIgnored(tileId) THEN UNCHANGED vars
     ELSE IF tiles[FindTile(tiles, tileId)].covered THEN PickReveal(tileId)
     ELSE IF Len(tray) > TRAY_LIMIT THEN PickOverflow(tileId)
     ELSE PickInsert(tileId)

pickTileBounded(tileId, maxMoves, maxPending) ==
  /\ uiStep = "game"
  /\ IF PickIgnored(tileId) THEN UNCHANGED vars
     ELSE IF tiles[FindTile(tiles, tileId)].covered THEN PickReveal(tileId)
     ELSE IF Len(tray) >= TRAY_LIMIT THEN PickOverflow(tileId)
     ELSE PickInsertBounded(tileId, maxMoves, maxPending)

pickTile(tileId) == pickTileBounded(tileId, MaxMoves, MaxPending)

(* -------------------------------- undo --------------------------------- *)
\* variant of undo: the tray is not restored from the snapshot
undoKeepsTray ==
  /\ uiStep = "game"
  /\ IF Len(history) = 0
     THEN /\ timeouts' = {}
          /\ UNCHANGED <<tiles, tray, gameState, history, lastInsert>>
     ELSE LET last == history[Len(history)]
          IN  /\ moveCount - Len(history) < MaxUndos
              /\ tiles' = last.tiles
              /\ tray' = tray
              /\ gameState' = WinCheck(hasStarted, last.gameState, last.tiles)
              /\ history' = SubSeq(history, 1, Len(history) - 1)
              /\ timeouts' = WinEffectTimers(last.gameState, gameState', moveCount)
              /\ lastInsert' = NoInsert
  /\ UNCHANGED <<uiStep, hasStarted, currentLevel, moveCount>>
  /\ WinEffectMerits(IF Len(history) = 0 THEN gameState
                     ELSE history[Len(history)].gameState,
                     gameState', elapsedSec, moveCount')

\* variant of undo: the empty-history check is missing and the board is reset
undoUnguarded ==
  /\ uiStep = "game"
  /\ IF Len(history) = 0
     THEN /\ timeouts' = {}
          /\ tiles' = <<>>
          /\ tray' = <<>>
          /\ UNCHANGED <<gameState, history, lastInsert>>
     ELSE LET last == history[Len(history)]
          IN  /\ moveCount - Len(history) < MaxUndos
              /\ tiles' = last.tiles
              /\ tray' = last.tray
              /\ gameState' = WinCheck(hasStarted, last.gameState, last.tiles)
              /\ history' = SubSeq(history, 1, Len(history) - 1)
              /\ timeouts' = WinEffectTimers(last.gameState, gameState', moveCount)
              /\ lastInsert' = NoInsert
  /\ UNCHANGED <<uiStep, hasStarted, currentLevel, moveCount>>
  /\ WinEffectMerits(IF Len(history) = 0 THEN gameState
                     ELSE history[Len(history)].gameState,
                     gameState', elapsedSec, moveCount')

\* variant of undo: the move that is taken back is no longer counted
undoCountsBack ==
  /\ uiStep = "game"
  /\ IF Len(history) = 0
     THEN /\ timeouts' = {}
          /\ UNCHANGED <<tiles, tray, gameState, history, lastInsert, moveCount>>
     ELSE LET last == history[Len(history)]
          IN  /\ moveCount - Len(history) < MaxUndos
              /\ tiles' = last.tiles
              /\ tray' = last.tray
              /\ gameState' = WinCheck(hasStarted, last.gameState, last.tiles)
              /\ history' = SubSeq(history, 1, Len(history) - 1)
              /\ timeouts' = WinEffectTimers(last.gameState, gameState', moveCount)
              /\ lastInsert' = NoInsert
              /\ moveCount' = Max(0, moveCount - 1)
  /\ UNCHANGED <<uiStep, hasStarted, currentLevel>>
  /\ WinEffectMerits(IF Len(history) = 0 THEN gameState
                     ELSE history[Len(history)].gameState,
                     gameState', elapsedSec, moveCount')

undo ==
  /\ uiStep = "game"
  /\ IF Len(history) = 0
     THEN /\ timeouts' = {}
          /\ UNCHANGED <<tiles, tray, gameState, history, lastInsert>>
     ELSE LET last == history[Len(history)]
          IN  /\ moveCount - Len(history) < MaxUndos
              /\ tiles' = last.tiles
              /\ tray' = last.tray
              /\ gameState' = WinCheck(hasStarted, last.gameState, last.tiles)
              /\ history' = SubSeq(history, 1, Len(history) - 1)
              /\ timeouts' = WinEffectTimers(last.gameState, gameState', moveCount)
              /\ lastInsert' = NoInsert
  /\ UNCHANGED <<uiStep, hasStarted, currentLevel, moveCount>>
  /\ WinEffectMerits(IF Len(history) = 0 THEN gameState
                     ELSE history[Len(history)].gameState,
                     gameState', elapsedSec, moveCount')

(* ------------------------------ reshuffle ------------------------------ *)
\* number of tiles not removed among the first i tiles
LiveRank(tl, i) == Cardinality({j \in 1..i : ~tl[j].removed})

reshuffle ==
  /\ uiStep = "game"
  /\ IF gameState # "playing" THEN UNCHANGED vars
     ELSE /\ Len(history) < MaxHistory
          /\ Len(aliveTiles(tiles)) <= MaxShuffleLive
          /\ history' = pushHistory(history, tiles, tray, gameState)
          /\ \E mixed \in shuffle([k \in 1..LiveRank(tiles, Len(tiles)) |->
                 tiles[SetMin({i \in 1..Len(tiles) :
                                 ~tiles[i].removed /\ LiveRank(tiles, i) = k})].letterId]) :
               tiles' = [i \in 1..Len(tiles) |->
                           IF tiles[i].removed THEN tiles[i]
                           ELSE [tiles[i] EXCEPT !.letterId = mixed[LiveRank(tiles, i)]]]
          /\ gameState' = WinCheck(hasStarted, gameState, tiles')
          /\ timeouts' = timeouts \cup WinEffectTimers(gameState, gameState', moveCount)
          /\ lastInsert' = NoInsert
          /\ UNCHANGED <<uiStep, hasStarted, currentLevel, tray, moveCount>>
          /\ WinEffectMerits(gameState, gameState', elapsedSec, moveCount')

(* ----------------------- scheduled callbacks fire ---------------------- *)
\* removal callback of pickTile
fireRemove(tm) ==
  /\ tm.kind = "remove"
  /\ CanFire(tm)
  /\ tiles' = [i \in 1..Len(tiles) |->
                 IF tiles[i].tileId = tm.tileId
                 THEN [tiles[i] EXCEPT !.removed = TRUE] ELSE tiles[i]]
  /\ gameState' = WinCheck(hasStarted, gameState, tiles')
  /\ timeouts' = (timeouts \ {tm}) \cup WinEffectTimers(gameState, gameState', moveCount)
  /\ UNCHANGED <<uiStep, hasStarted, currentLevel, tray, history, moveCount,
                 lastInsert>>
  /\ WinEffectMerits(gameState, gameState', elapsedSec, moveCount')

\* variant of fireClear: only the first entry of the pair leaves the tray
fireClearFirstOnly(tm) ==
  /\ tm.kind = "clear"
  /\ CanFire(tm)
  /\ tray' = SelectSeq(tray, LAMBDA it : it.trayId # SetMin(tm.ids))
  /\ timeouts' = timeouts \ {tm}
  /\ UNCHANGED <<uiStep, hasStarted, currentLevel, gameState, tiles, history,
                 moveCount, lastInsert>>
  /\ UNCHANGED meritVars

\* pair-clear callback of tryRemovePairInTray
fireClear(tm) ==
  /\ tm.kind = "clear"
  /\ CanFire(tm)
  /\ tray' = SelectSeq(tray, LAMBDA it : it.trayId \notin tm.ids)
  /\ timeouts' = timeouts \ {tm}
  /\ UNCHANGED <<uiStep, hasStarted, currentLevel, gameState, tiles, history,
                 moveCount, lastInsert>>
  /\ UNCHANGED meritVars

\* win-banner callback
fireBanner(tm) ==
  /\ tm.kind = "banner"
  /\ CanFire(tm)
  /\ goToIntro

fireTimeout == \E tm \in timeouts : fireRemove(tm) \/ fireClear(tm) \/ fireBanner(tm)

\* interval callback of the clock effect: elapsedSec follows Date.now() while
\* the session is playing
tick ==
  /\ hasStarted
  /\ gameState = "playing"
  /\ elapsedSec < MaxElapsedSec
  /\ elapsedSec' \in (elapsedSec + 1)..MaxElapsedSec
  /\ UNCHANGED <<uiStep, hasStarted, currentLevel, gameState, tiles, tray, history,
                 moveCount, timeouts, lastMerits, totalMerits, lastInsert>>

(* --------------------------- specification ----------------------------- *)
Next ==
  \/ openLevels
  \/ \E lvl \in {1, Min(LevelPlayed, MAX_LEVEL)} : setLevel(lvl)
  \/ startGame
  \/ \E tileId \in 0..(2 * NumPairs) : pickTile(tileId)
  \/ undo
  \/ reshuffle
  \/ fireTimeout
  \/ tick

Spec == Init /\ [][Next]_vars

\* a callback registered with setTimeout runs once its delay has passed
FairSpec == Init /\ [][Next]_vars /\ WF_vars(fireTimeout)

(* ------------------ computeTileStatus on every board ------------------- *)
\* the level-1 board on which exactly the tiles at the positions in live are
\* left; the others were activated and removed
BoardWith(live) ==
  LET layout == buildLayout(levelConfig(1).tileCount)
  IN  [i \in 1..Len(layout) |->
         [tileId |-> layout[i].tileId,
          letterId |-> level1Letters[((i - 1) % Len(level1Letters)) + 1],
          x |-> layout[i].x, y |-> layout[i].y, z |-> layout[i].z,
          removed |-> i \notin live, animatingOut |-> i \notin live,
          covered |-> FALSE]]

InitBoards(maxAlive) ==
  /\ uiStep = "game"
  /\ hasStarted = TRUE
  /\ currentLevel = 1
  /\ gameState = "playing"
  /\ tray = <<>>
  /\ history = <<>>
  /\ moveCount = 0
  /\ timeouts = {}
  /\ lastInsert = NoInsert
  /\ tiles \in {BoardWith({pick[k] : k \in 1..maxAlive})
                  : pick \in [1..maxAlive -> 1..levelConfig(1).tileCount]}
  /\ elapsedSec = 0
  /\ lastMerits = NoMerits
  /\ totalMerits = 0

InitSolver == InitBoards(MaxAlive)

\* the player activates a tile of the board: pickTile consults the free set
SolverPick == \E tileId \in 0..(levelConfig(1).tileCount - 1) : pickTile(tileId)

NextSolver == SolverPick

SpecSolver == InitSolver /\ [][NextSolver]_vars

(* ------------- activations while earlier tiles are leaving -------------- *)
\* level-1 boards with at most MaxAliveLeaving tiles left; tiles are activated
\* while the removal callbacks of earlier activations are still pending
InitLeaving == InitBoards(MaxAliveLeaving)

LeavingPick ==
  \E tileId \in 0..(levelConfig(1).tileCount - 1) :
    pickTileBounded(tileId, MaxMoves, MaxPendingLeaving)

NextLeaving ==
  \/ LeavingPick
  \/ \E tm \in timeouts : fireRemove(tm) \/ fireClear(tm)

SpecLeaving == InitLeaving /\ [][NextLeaving]_vars

(* ------------------- a level-1 session played twice -------------------- *)
\* a level-1 session with room for one move more than the board has tiles:
\* the last activation can be taken back and made again
RewinPick ==
  \E tileId \in 0..(2 * NumPairs) : pickTileBounded(tileId, MaxMovesRewin, MaxPending)

NextRewin ==
  \/ openLevels
  \/ startGame
  \/ RewinPick
  \/ undo
  \/ fireTimeout

SpecRewin == Init /\ [][NextRewin]_vars

(* ----------------- the boards of every level, in play ------------------ *)
\* the board of the level on which exactly the tiles at the positions in live
\* are left; the others were activated and removed
BoardOn(level, live) ==
  LET layout == buildLayout(levelConfig(level).tileCount)
  IN  [i \in 1..Len(layout) |->
         [tileId |-> layout[i].tileId,
          letterId |-> level1Letters[((i - 1) % Len(level1Letters)) + 1],
          x |-> layout[i].x, y |-> layout[i].y, z |-> layout[i].z,
          removed |-> i \notin live, animatingOut |-> i \notin live,
          covered |-> FALSE]]

\* every level on its whole board, and the last level on every board with at
\* most MaxAliveBoards tiles left (the boards of the lower levels are made of
\* the same slots)
InitLevelBoards ==
  /\ uiStep = "game"
  /\ hasStarted = TRUE
  /\ currentLevel \in 1..MAX_LEVEL
  /\ gameState = "playing"
  /\ tray = <<>>
  /\ history = <<>>
  /\ moveCount = 0
  /\ timeouts = {}
  /\ lastInsert = NoInsert
  /\ tiles \in {BoardOn(currentLevel, 1..levelConfig(currentLevel).tileCount)}
               \cup (IF currentLevel # MAX_LEVEL THEN {}
                     ELSE {BoardOn(currentLevel, {pick[k] : k \in 1..MaxAliveBoards})
                             : pick \in [1..MaxAliveBoards ->
                                           1..levelConfig(currentLevel).tileCount]})
  /\ elapsedSec = 0
  /\ lastMerits = NoMerits
  /\ totalMerits = 0

\* the player activates a tile the solver reports free (any other activation
\* is ignored)
BoardPick ==
  \E tileId \in freeTileIds(tiles, currentLevel) :
    pickTileBounded(tileId, MaxMovesBoards, MaxPending)

BoardRemove == \E tm \in timeouts : fireRemove(tm)

NextBoards ==
  \/ BoardPick
  \/ BoardRemove

SpecBoards == InitLevelBoards /\ [][NextBoards]_vars

(* ------------------ tryRemovePairInTray on every tray ------------------ *)
\* trays of length n over the session's symbols, any entries matchedOut,
\* trayIds distinct as pickTile builds them
TraysOfLen(n) ==
  { [i \in 1..n |-> [trayId |-> i, tileId |-> i - 1,
                     letterId |-> ls[i], matchedOut |-> ms[i]]]
    : ls \in [1..n -> {level1Letters[k] : k \in 1..Len(level1Letters)}],
      ms \in [1..n -> BOOLEAN] }

InitTray ==
  /\ uiStep = "game"
  /\ hasStarted = TRUE
  /\ currentLevel = 1
  /\ gameState = "playing"
  /\ tiles = <<>>
  /\ history = <<>>
  /\ moveCount = 0
  /\ timeouts = {}
  /\ lastInsert = NoInsert
  /\ tray \in UNION {TraysOfLen(n) : n \in 0..TRAY_LIMIT}
  /\ elapsedSec = 0
  /\ lastMerits = NoMerits
  /\ totalMerits = 0

\* one call of tryRemovePairInTray on the tray, its result stored
resolvePairs ==
  LET cleaned == tryRemovePairInTray(tray)
  IN  /\ tray' = cleaned.tray
      /\ timeouts' = timeouts \cup (IF cleaned.ids = {} THEN {}
                                    ELSE {ClearTimer(cleaned.ids, moveCount)})
      /\ UNCHANGED <<uiStep, hasStarted, currentLevel, gameState, tiles, history,
                     moveCount, lastInsert>>
      /\ UNCHANGED meritVars

NextTray == resolvePairs

SpecTray == InitTray /\ [][NextTray]_vars

(* ------------------- the win effect on every last move ----------------- *)
\* the board of a level on which the last tile is leaving: every tile has been
\* activated, all removal callbacks but the last one have run
LastTileBoard(level) ==
  LET layout == positionsPx(level)
  IN  [i \in 1..Len(layout) |->
         [tileId |-> layout[i].tileId,
          letterId |-> level1Letters[((i - 1) % Len(level1Letters)) + 1],
          x |-> layout[i].x, y |-> layout[i].y, z |-> layout[i].z,
          removed |-> i # 1, animatingOut |-> TRUE,
          covered |-> FALSE]]

InitMerits ==
  /\ uiStep = "game"
  /\ hasStarted = TRUE
  /\ currentLevel \in {1, Min(LevelPlayed, MAX_LEVEL)}
  /\ gameState = "playing"
  /\ tiles = LastTileBoard(currentLevel)
  /\ tray = <<>>
  /\ history = <<>>
  /\ moveCount \in levelConfig(currentLevel).tileCount..MaxWinMoves
  /\ timeouts = {RemoveTimer(tiles[1].tileId, moveCount)}
  /\ lastInsert = NoInsert
  /\ elapsedSec \in 0..MaxWinSec
  /\ lastMerits = NoMerits
  /\ totalMerits = 0

\* the last removal callback runs and the win effect follows; the banner
\* callback returns to the intro screen
NextMerits == \E tm \in timeouts : fireRemove(tm) \/ fireBanner(tm)

SpecMerits == InitMerits /\ [][NextMerits]_vars

(* ----------------------- sessions of every level ----------------------- *)
\* the level screen, reached from the intro screen; moveCount and elapsedSec
\* are what an earlier session left behind
InitLevels ==
  /\ uiStep = "levels"
  /\ hasStarted = FALSE
  /\ currentLevel \in 1..MAX_LEVEL
  /\ gameState = "playing"
  /\ tiles = <<>>
  /\ tray = <<>>
  /\ history = <<>>
  /\ moveCount \in 0..MaxMoves
  /\ timeouts = {}
  /\ lastInsert = NoInsert
  /\ elapsedSec \in 0..MaxElapsedSec
  /\ lastMerits = NoMerits
  /\ totalMerits = 0

\* the session is started on the whole layout of the selected level
startLevel == startGameOn(buildLayout(levelConfig(currentLevel).tileCount))

NextLevels ==
  \/ \E lvl \in 1..MAX_LEVEL : setLevel(lvl)
  \/ startLevel

SpecLevels == InitLevels /\ [][NextLevels]_vars

(* -------------------- buildLayout on every tileCount ------------------- *)
\* buildLayout is called with tileCount and initGame runs on its positionsPx
startSlots == \E tileCount \in 1..MaxSlotCount : startGameOn(buildLayout(tileCount))

NextLayout == startSlots

SpecLayout == InitLevels /\ [][NextLayout]_vars

(* ============================== claims ================================= *)
TileIds == 0..(2 * NumPairs)

\* the tile with this id is on the board and live (neither removed nor animatingOut)
LiveTile(tileId) ==
  \E i \in 1..Len(tiles) :
    tiles[i].tileId = tileId /\ ~tiles[i].removed /\ ~tiles[i].animatingOut

CoveredTile(tileId) ==
  \E i \in 1..Len(tiles) : tiles[i].tileId = tileId /\ tiles[i].covered

FreeTile(tileId) == tileId \in freeTileIds(tiles, currentLevel)

LiveCount(tl) ==
  Cardinality({i \in 1..Len(tl) : ~tl[i].removed /\ ~tl[i].animatingOut})

C3_UndoRestoresInsertion ==
  [][(lastInsert.valid /\ undo)
     => (/\ tiles' = lastInsert.tiles
         /\ tray' = lastInsert.tray
         /\ gameState' = lastInsert.gameState)]_vars

\* an insertion was taken back: the board is whole again after a counted move
C3_Witness ==
  /\ uiStep = "game"
  /\ moveCount = 1
  /\ ~lastInsert.valid
  /\ Len(tray) = 0
  /\ LiveCount(tiles) = Len(tiles)

\* C4: undo with an empty history changes neither tiles, tray, gameState,
\* moveCount, history nor the pending callbacks.
C4_UndoEmptyNoop ==
  [][(Len(history) = 0 /\ undo)
     => UNCHANGED <<tiles, tray, gameState, moveCount, history, timeouts>>]_vars

\* undo has emptied the history of a session in which tiles were moved
C4_Witness == uiStep = "game" /\ Len(history) = 0 /\ moveCount > 0

\* some pending callback of the win banner fires
BannerFires == \E tm \in timeouts : fireBanner(tm)

\* C5 as stated: once gameState is win or lose it keeps that value under every
\* event but a session start.
C5_Original ==
  [][(gameState \in {"win", "lose"} /\ ~startGame) => gameState' = gameState]_vars

\* C5 amended: gameState leaves win or lose only to playing, and only by undo
\* with a non-empty history, by the win-banner callback (goToIntro) or by a
\* session start; activation, reshuffle, removal and pair-clear callbacks keep it.
C5_TerminalUntilUndoOrReset ==
  [][(gameState \in {"win", "lose"} /\ gameState' # gameState)
     => (/\ gameState' = "playing"
         /\ \/ (undo /\ Len(history) > 0)
            \/ (gameState = "win" /\ BannerFires)
            \/ startGame)]_vars

\* the removal callback of the last tile has fired after the win
C5_Witness ==
  /\ gameState = "win"
  /\ \A i \in 1..Len(tiles) : tiles[i].removed

\* C6: in a started session gameState is win exactly when no tile is live; it
\* turns from playing to win in the step that empties the live set, and never
\* from lose to win.
C6_WinIffNoLiveTile ==
  [][/\ hasStarted' => ((gameState' = "win") <=> (LiveCount(tiles') = 0))
     /\ ~(gameState = "lose" /\ gameState' = "win")
     /\ (gameState = "playing" /\ gameState' = "win")
          => (LiveCount(tiles) > 0 /\ LiveCount(tiles') = 0)]_vars

\* the win was reached by the activation of the last live tile
C6_Witness ==
  /\ hasStarted
  /\ gameState = "win"
  /\ \E i \in 1..Len(tiles) : tiles[i].animatingOut /\ ~tiles[i].removed

\* an activation the player may not make
InvalidPick(tileId) ==
  \/ gameState # "playing"
  \/ ~LiveTile(tileId)
  \/ ~FreeTile(tileId)

\* C7: an activation with gameState not playing, or of a tile that is missing,
\* removed, animatingOut or not free, and a reshuffle with gameState not playing,
\* change nothing and schedule nothing.
C7_InvalidActionsIgnored ==
  [][/\ \A tileId \in TileIds :
          (InvalidPick(tileId) /\ pickTile(tileId))
          => UNCHANGED <<tiles, tray, history, moveCount, gameState, timeouts>>
     /\ (gameState # "playing" /\ reshuffle)
          => UNCHANGED <<tiles, tray, history, moveCount, gameState, timeouts>>]_vars

\* a playing board with a removed tile, a tile animating out and a blocked live tile
C7_Witness ==
  /\ gameState = "playing"
  /\ \E i \in 1..Len(tiles) : tiles[i].removed
  /\ \E i \in 1..Len(tiles) : tiles[i].animatingOut /\ ~tiles[i].removed
  /\ \E i \in 1..Len(tiles) : LiveTile(tiles[i].tileId) /\ ~FreeTile(tiles[i].tileId)

\* C8: activating a free covered tile only clears its covered flag; the other
\* tiles, the tray, the history, moveCount and gameState stay, full tray or not.
C8_RevealOnlyUncovers ==
  [][\A tileId \in TileIds :
       (/\ gameState = "playing"
        /\ LiveTile(tileId) /\ FreeTile(tileId) /\ CoveredTile(tileId)
        /\ pickTile(tileId))
       => (/\ tiles' = [i \in 1..Len(tiles) |->
                          IF tiles[i].tileId = tileId
                          THEN [tiles[i] EXCEPT !.covered = FALSE] ELSE tiles[i]]
           /\ LiveTile(tileId)'
           /\ UNCHANGED <<tray, history, moveCount, gameState>>)]_vars

\* a session that started with covered tiles has none left while the tray is full
C8_Witness ==
  /\ uiStep = "game"
  /\ gameState = "playing"
  /\ Len(tray) = TRAY_LIMIT
  /\ RoundDiv(Len(tiles) * levelConfig(currentLevel).coverRate, 100) > 0
  /\ \A i \in 1..Len(tiles) : ~tiles[i].covered

\* positions of the tray entries that are not matchedOut
OpenAt(tr) == {i \in 1..Len(tr) : ~tr[i].matchedOut}

\* two entries of tr that are not matchedOut carry the same symbol
HasOpenPair(tr) ==
  \E i, j \in OpenAt(tr) : i < j /\ tr[i].letterId = tr[j].letterId

\* from tr to out exactly the entries at positions i < j turn matchedOut
MarksOnly(tr, out, i, j) ==
  /\ Len(out) = Len(tr)
  /\ \A k \in 1..Len(tr) :
       out[k] = IF k \in {i, j} THEN [tr[k] EXCEPT !.matchedOut = TRUE] ELSE tr[k]

\* i < j are the first two open entries of their symbol, and no other symbol
\* with two open entries has an open entry before position i
FirstPairAt(tr, i, j) ==
  /\ i \in OpenAt(tr) /\ j \in OpenAt(tr) /\ i < j
  /\ tr[i].letterId = tr[j].letterId
  /\ \A k \in OpenAt(tr) : (k < j /\ k # i) => tr[k].letterId # tr[i].letterId
  /\ \A k, m \in OpenAt(tr) :
       (k < m /\ tr[k].letterId = tr[m].letterId) => i <= k

\* C9: one call of tryRemovePairInTray marks the first two entries not
\* matchedOut of the first symbol that has two such entries and changes no other
\* entry; entries already matchedOut do not count; without such a symbol the
\* tray comes back unchanged.
C9_OnePairPerCall ==
  LET out == tryRemovePairInTray(tray).tray
  IN  IF HasOpenPair(tray)
      THEN \E i, j \in 1..Len(tray) :
             FirstPairAt(tray, i, j) /\ MarksOnly(tray, out, i, j)
      ELSE out = tray

\* a call marked one pair and left the third entry of the same symbol open
C9_Witness ==
  /\ Len(tray) = 3
  /\ timeouts # {}
  /\ \A i \in 1..3 : tray[i].letterId = tray[1].letterId
  /\ tray[1].matchedOut /\ tray[2].matchedOut /\ ~tray[3].matchedOut

\* the tray holds the entry with this trayId, marked matchedOut
MatchedInTray(id) ==
  \E i \in 1..Len(tray) : tray[i].trayId = id /\ tray[i].matchedOut

\* C10: with scheduled callbacks firing fairly, no tray entry stays matchedOut
\* in the tray for ever: it is eventually cleared from the tray (or taken back
\* by an undo of its match, or dropped by a session reset).
C10_MatchedEventuallyCleared ==
  \A id \in 1..MaxMoves : MatchedInTray(id) ~> ~MatchedInTray(id)

\* a matchedOut entry sits in the tray and no callback is pending
C10_Witness ==
  /\ timeouts = {}
  /\ \E id \in 1..MaxMoves : MatchedInTray(id)

\* the tile with this id is marked animatingOut and is not removed
LeavingTile(tileId) ==
  \E i \in 1..Len(tiles) :
    tiles[i].tileId = tileId /\ tiles[i].animatingOut /\ ~tiles[i].removed

\* C11: with scheduled callbacks firing fairly, no tile stays animatingOut and
\* not removed for ever: it eventually becomes removed (or is put back on the
\* board by an undo of its activation, or dropped by a session reset).
C11_LeavingEventuallyRemoved ==
  \A tileId \in TileIds : LeavingTile(tileId) ~> ~LeavingTile(tileId)

\* a tile is animatingOut, not removed, and no callback is pending
C11_Witness ==
  /\ timeouts = {}
  /\ \E tileId \in TileIds : LeavingTile(tileId)

\* number of live tiles of tl that carry the symbol
LiveLetterCount(tl, letterId) ==
  Cardinality({i \in 1..Len(tl) :
                 ~tl[i].removed /\ ~tl[i].animatingOut /\ tl[i].letterId = letterId})

\* the live tiles of a and of b carry the same multiset of symbols
SameLiveLetters(a, b) ==
  \A k \in 1..Len(letters) :
    LiveLetterCount(a, letters[k]) = LiveLetterCount(b, letters[k])

\* C12: reshuffle in state playing keeps the multiset of symbols over the live
\* tiles and changes nothing but letterId values: every other field of every
\* tile, the tray and moveCount stay.
C12_ReshuffleKeepsLiveSymbols ==
  [][(gameState = "playing" /\ reshuffle)
     => (/\ SameLiveLetters(tiles, tiles')
         /\ Len(tiles') = Len(tiles)
         /\ \A i \in 1..Len(tiles) :
              tiles'[i] = [tiles[i] EXCEPT !.letterId = tiles'[i].letterId]
         /\ UNCHANGED <<tray, moveCount>>)]_vars

\* a playing board after a reshuffle on which some symbol is carried by an odd
\* number of tiles that are live or in the tray
C12_Witness ==
  /\ gameState = "playing"
  /\ moveCount - Len(history) < 0
  /\ \E k \in 1..Len(letters) :
       (LiveLetterCount(tiles, letters[k])
        + Cardinality({i \in 1..Len(tray) :
                         ~tray[i].matchedOut /\ tray[i].letterId = letters[k]})) % 2 = 1

LiveIds == {tiles[i].tileId : i \in {k \in 1..Len(tiles) :
                                       ~tiles[k].removed /\ ~tiles[k].animatingOut}}

\* C14: on every snapshot of live tiles the free set and the set of tiles with
\* a block reason are disjoint and together hold every live tile; each blocked
\* tile has one of the three reasons.
C14_FreeXorBlocked ==
  LET free == computeTileStatus(aliveTiles(tiles), levelConfig(currentLevel).sideGapFactor)
      reasons == reasonById(aliveTiles(tiles), levelConfig(currentLevel).sideGapFactor)
  IN  /\ free \cap DOMAIN reasons = {}
      /\ free \cup DOMAIN reasons = LiveIds
      /\ \A id \in DOMAIN reasons :
           reasons[id] \in {"blocked:overlap-above", "blocked:overlap-same",
                            "blocked:lateral"}

\* a board with a free tile and a tile blocked from above
C14_Witness ==
  LET reasons == reasonById(aliveTiles(tiles), levelConfig(currentLevel).sideGapFactor)
  IN  /\ \E id \in LiveIds : FreeTile(id)
      /\ \E id \in DOMAIN reasons : reasons[id] = "blocked:overlap-above"

\* no other live tile of the same layer overlaps the tile vertically
NoLayerNeighbor(tileId) ==
  \A i, j \in 1..Len(aliveTiles(tiles)) :
    LET alive == aliveTiles(tiles)
        rt == tileRectBase(alive[i])
        ro == tileRectBase(alive[j])
    IN  (alive[i].tileId = tileId /\ i # j /\ alive[j].z = alive[i].z)
        => Min(rt.bottom, ro.bottom) - Max(rt.top, ro.top) <= 0

\* some live tile of a higher layer overlaps the tile
CoveredFromAbove(tileId) ==
  \E i, j \in 1..Len(aliveTiles(tiles)) :
    LET alive == aliveTiles(tiles)
    IN  /\ alive[i].tileId = tileId
        /\ alive[j].z > alive[i].z
        /\ rectsOverlapAny(tileRectBase(alive[i]), tileRectBase(alive[j]))

\* C15 as stated: a live tile without a same-layer neighbour that overlaps it
\* vertically is in the free set.
C15_Original ==
  \A id \in LiveIds : NoLayerNeighbor(id) => FreeTile(id)

\* C15 amended: a live tile without a same-layer neighbour that overlaps it
\* vertically is never blocked by the lateral rule or by a same-layer overlap; it
\* is in the free set exactly when no tile of a higher layer overlaps it.
C15_NoNeighborFreeUnlessCovered ==
  \A id \in LiveIds :
    NoLayerNeighbor(id) => (FreeTile(id) <=> ~CoveredFromAbove(id))

\* a board with a tile that has no same-layer neighbour and lies under a tile of
\* a higher layer, and another one that has no same-layer neighbour and is free
C15_Witness ==
  /\ \E id \in LiveIds : NoLayerNeighbor(id) /\ CoveredFromAbove(id)
  /\ \E id \in LiveIds : NoLayerNeighbor(id) /\ ~CoveredFromAbove(id)

(* --------------------------------- C16 --------------------------------- *)
\* numerator of clamp(1 - (v / target - 1) * 0.5, 0, 1) over 2 * target
ScoreNum(v, target) == Max(0, Min(2 * target, 3 * target - v))

\* score >= pct / 100 for score = 0.35 * scoreTime + 0.65 * scoreMoves, in
\* exact arithmetic
ScoreAtLeast(e, m, level, pct) ==
  LET timeTarget == 90 + 15 * (level - 1)
      moveTarget == 20 + 3 * (level - 1)
  IN  35 * ScoreNum(e, timeTarget) * 2 * moveTarget
        + 65 * ScoreNum(m, moveTarget) * 2 * timeTarget
      >= pct * 2 * timeTarget * 2 * moveTarget

\* round(tier * (1 + 0.1 * (L - 1))) with the tier of the exact score
FormulaMerits(e, m, level) ==
  LET tier == IF ScoreAtLeast(e, m, level, 85) THEN 10
              ELSE IF ScoreAtLeast(e, m, level, 70) THEN 8
              ELSE IF ScoreAtLeast(e, m, level, 55) THEN 6
              ELSE IF ScoreAtLeast(e, m, level, 40) THEN 4
              ELSE 2
  IN  RoundDiv(tier * (9 + level), 10)

\* C16: on a win at level L with elapsedSec e and moveCount m the merits earned
\* are round(tier * (1 + 0.1 * (L - 1))) for the tier of the score
\* 0.35 * scoreTime + 0.65 * scoreMoves, and totalMerits grows by that amount.
C16_MeritsFollowFormula ==
  [][(gameState # "win" /\ gameState' = "win")
       => /\ lastMerits' = FormulaMerits(elapsedSec, moveCount, currentLevel)
          /\ totalMerits' = totalMerits
                              + FormulaMerits(elapsedSec, moveCount, currentLevel)]_vars

\* a level-1 win after 198 seconds and 44 moves, whose score is exactly 0.40
C16_Witness ==
  /\ gameState = "win"
  /\ lastMerits # NoMerits
  /\ currentLevel = 1
  /\ elapsedSec = 198
  /\ moveCount = 44

(* --------------------------------- C17 --------------------------------- *)
\* C17: for every level 1..MAX_LEVEL levelConfig gives
\* tileCount = clamp(24 + 2 * (level - 1), 24, 50), sideGapFactor = 0.18 and
\* coverRate = clamp(0.06 * (level - 1), 0, 0.45); tileCount is even and at most
\* the size of the layout pool, and the session started at a level holds exactly
\* tileCount tiles. (coverRate is kept in hundredths; the number of covered
\* tiles the code derives from its double value is the one the hundredths give.)
C17_LevelConfigAndSessionSize ==
  /\ \A level \in 1..MAX_LEVEL :
       LET cfg == levelConfig(level)
           count == IF 24 + 2 * (level - 1) > 50 THEN 50 ELSE 24 + 2 * (level - 1)
           rate == IF 6 * (level - 1) > 45 THEN 45 ELSE 6 * (level - 1)
       IN  /\ cfg.tileCount = count
           /\ cfg.sideGapFactor = 18
           /\ cfg.coverRate = rate
           /\ coverCount(cfg.tileCount, level) = RoundDiv(cfg.tileCount * rate, 100)
           /\ cfg.tileCount % 2 = 0
           /\ cfg.tileCount <= Len(createLayoutPool)
  /\ hasStarted =>
       /\ Len(tiles) = levelConfig(currentLevel).tileCount
       /\ \A i, j \in 1..Len(tiles) : i # j => tiles[i].tileId # tiles[j].tileId

\* a session of the last level, which takes slots beyond the base block
C17_Witness ==
  /\ hasStarted
  /\ currentLevel = MAX_LEVEL
  /\ Len(tiles) = 42

(* --------------------------------- C18 --------------------------------- *)
\* number of tiles of the session that carry the symbol
SymbolCount(letterId) ==
  Cardinality({i \in 1..Len(tiles) : tiles[i].letterId = letterId})

C19_LeavingXorRemoved ==
  \A i \in 1..Len(tiles) : ~(tiles[i].animatingOut /\ tiles[i].removed)

\* the removal callback of an activated tile has run while the game goes on
C19_Witness ==
  /\ gameState = "playing"
  /\ timeouts = {}
  /\ \E i \in 1..Len(tiles) : tiles[i].removed
  /\ \E i \in 1..Len(tiles) : ~tiles[i].removed /\ ~tiles[i].animatingOut

(* --------------------------------- C20 --------------------------------- *)
\* the activation of the tile gets past the early returns and the covered check
\* and finds room in the tray
InsertingPick(tileId, free) ==
  /\ gameState = "playing"
  /\ \E i \in 1..Len(tiles) :
       /\ tiles[i].tileId = tileId
       /\ ~tiles[i].removed /\ ~tiles[i].animatingOut /\ ~tiles[i].covered
  /\ tileId \in free
  /\ Len(tray) < TRAY_LIMIT

\* the state before the action, as a snapshot
PreState == [tiles |-> tiles, tray |-> tray, gameState |-> gameState]

\* C20: history grows by exactly one snapshot, equal to the tiles, tray and
\* state before the mutation, on each activation that inserts into the tray and
\* on each reshuffle in state playing; a reveal, a rejected activation and the
\* activation that triggers lose push nothing; undo removes exactly the top
\* snapshot; a session start empties the history. (A step that leaves tray and
\* history as they are inserts nothing and pushes nothing.)
C20_HistoryDiscipline ==
  [][/\ \/ (tray' = tray /\ history' = history)
        \/ LET free == freeTileIds(tiles, currentLevel)
           IN  \A tileId \in TileIds :
                 \/ history' = IF InsertingPick(tileId, free)
                               THEN Append(history, PreState) ELSE history
                 \/ ~pickTile(tileId)
     /\ (gameState = "playing" /\ reshuffle) => history' = Append(history, PreState)
     /\ (gameState # "playing" /\ reshuffle) => history' = history
     /\ undo => history' = SubSeq(history, 1, Len(history) - 1)
     /\ startGame => history' = <<>>]_vars

\* insertions and a reshuffle are stacked
C20_Witness ==
  /\ gameState = "playing"
  /\ moveCount > 0
  /\ Len(history) = moveCount + 1

(* --------------------------------- C21 --------------------------------- *)
\* the rectangle of the live tile with this id
RectOf(tileId) ==
  tileRectBase(tiles[CHOOSE i \in 1..Len(tiles) : tiles[i].tileId = tileId])

LayerOf(tileId) ==
  tiles[CHOOSE i \in 1..Len(tiles) : tiles[i].tileId = tileId].z

\* no live tile of a higher layer or of its own layer overlaps the tile
NotOverlapped(tileId) ==
  \A o \in LiveIds \ {tileId} :
    LayerOf(o) >= LayerOf(tileId) => ~rectsOverlapAny(RectOf(tileId), RectOf(o))

\* o is a same-layer tile with positive vertical overlap
BesideInLayer(tileId, o) ==
  /\ o # tileId
  /\ LayerOf(o) = LayerOf(tileId)
  /\ Min(RectOf(tileId).bottom, RectOf(o).bottom)
       - Max(RectOf(tileId).top, RectOf(o).top) > 0

\* sideGapFactor * tileWidth, in hundredths of a pixel
SideGap == tileW * levelConfig(currentLevel).sideGapFactor

LeftNeighbor(tileId) ==
  \E o \in LiveIds :
    /\ BesideInLayer(tileId, o)
    /\ RectOf(o).right <= RectOf(tileId).left
    /\ RectOf(tileId).left - RectOf(o).right <= SideGap

RightNeighbor(tileId) ==
  \E o \in LiveIds :
    /\ BesideInLayer(tileId, o)
    /\ RectOf(o).left >= RectOf(tileId).right
    /\ RectOf(o).left - RectOf(tileId).right <= SideGap

\* C21: a tile that no live tile of a higher layer or of its own layer overlaps
\* is in the free set if and only if it lacks a lateral neighbour on at least
\* one side; with neighbours on both sides its reason is blocked:lateral.
C21_LateralRule ==
  LET reasons == reasonById(aliveTiles(tiles), levelConfig(currentLevel).sideGapFactor)
  IN  \A id \in LiveIds :
        NotOverlapped(id) =>
          /\ FreeTile(id) <=> ~(LeftNeighbor(id) /\ RightNeighbor(id))
          /\ (LeftNeighbor(id) /\ RightNeighbor(id))
               => (id \in DOMAIN reasons /\ reasons[id] = "blocked:lateral")

\* a board with a tile between two lateral neighbours and a free tile with a
\* neighbour on one side only
C21_Witness ==
  /\ \E id \in LiveIds :
       NotOverlapped(id) /\ LeftNeighbor(id) /\ RightNeighbor(id)
  /\ \E id \in LiveIds :
       NotOverlapped(id) /\ LeftNeighbor(id) /\ ~RightNeighbor(id) /\ FreeTile(id)

\* ids of the level-1 board
BoardIds == 0..(levelConfig(1).tileCount - 1)

\* number of tray entries that came from the tile
TrayCount(tr, tileId) == Cardinality({i \in 1..Len(tr) : tr[i].tileId = tileId})

\* the live tiles alone leave the tile unblocked: none of them overlaps it from
\* its own or a higher layer, and they do not flank it on both sides
OpenAmongLive(tileId) ==
  NotOverlapped(tileId) /\ ~(LeftNeighbor(tileId) /\ RightNeighbor(tileId))

\* b is animatingOut, not removed, and would block a if it still counted: it
\* overlaps a from a higher layer
BlockedOnlyByLeaving(a, b) ==
  /\ LeavingTile(b)
  /\ LayerOf(b) > LayerOf(a)
  /\ rectsOverlapAny(RectOf(a), RectOf(b))
  /\ OpenAmongLive(a)

\* C22: tiles marked animatingOut do not count for the solver from the step that
\* marks them: a live tile that the live tiles alone leave unblocked is in the
\* free set, whatever animatingOut tiles lie over or beside it, and its
\* activation puts it into the tray; a tile that is animatingOut or removed
\* never gains a tray entry.
C22_LeavingTilesDoNotBlock ==
  [][/\ \A id \in BoardIds :
          /\ (LiveTile(id) /\ OpenAmongLive(id)) => FreeTile(id)
          /\ ((LiveTile(id) /\ OpenAmongLive(id)) => FreeTile(id))'
          /\ (/\ gameState = "playing"
              /\ LiveTile(id) /\ OpenAmongLive(id) /\ ~CoveredTile(id)
              /\ Len(tray) < TRAY_LIMIT
              /\ pickTileBounded(id, MaxMoves, MaxPendingLeaving))
               => (LeavingTile(id)' /\ TrayCount(tray', id) = 1)
          /\ ~LiveTile(id) => TrayCount(tray', id) <= TrayCount(tray, id)]_vars

\* a tile lying under a tile that is still animatingOut was activated: both are
\* on their way out, the upper one first
C22_Witness ==
  \E a, b \in BoardIds :
    /\ LeavingTile(a)
    /\ BlockedOnlyByLeaving(a, b)
    /\ \E i, j \in 1..Len(tray) :
         i < j /\ tray[i].tileId = b /\ tray[j].tileId = a

\* number of covered tiles of tl
CoveredCount(tl) == Cardinality({i \in 1..Len(tl) : tl[i].covered})

\* C23: a session start deals every symbol to an even number of tiles, one
\* symbol to each slot of the layout, leaves no tile removed or animatingOut,
\* empties tray and history, sets moveCount to 0 and gameState to playing, and
\* covers exactly round(slotCount * coverRate) tiles, none at level 1.
C23_SessionStart ==
  [][startLevel =>
       LET slots == buildLayout(levelConfig(currentLevel).tileCount)
       IN  /\ Len(tiles') = Len(slots)
           /\ \A i \in 1..Len(tiles') :
                /\ tiles'[i].tileId = slots[i].tileId
                /\ \E k \in 1..Len(letters) : tiles'[i].letterId = letters[k]
                /\ SymbolCount(tiles[i].letterId)' % 2 = 0
                /\ ~tiles'[i].removed /\ ~tiles'[i].animatingOut
           /\ tray' = <<>>
           /\ history' = <<>>
           /\ moveCount' = 0
           /\ gameState' = "playing"
           /\ CoveredCount(tiles') = coverCount(Len(slots), currentLevel)
           /\ currentLevel = 1 => CoveredCount(tiles') = 0]_vars

\* a session of level 4 has started: 30 tiles, 5 of them covered
C23_Witness ==
  /\ hasStarted
  /\ uiStep = "game"
  /\ currentLevel = 4
  /\ moveCount = 0
  /\ CoveredCount(tiles) = 5
  /\ Len(tiles) = 30

\* C24: within a session a tile that is not covered never becomes covered
\* again, whatever activation, reshuffle, undo or callback follows.
C24_NoRecover ==
  [][(uiStep = "game" /\ uiStep' = "game" /\ Len(tiles') = Len(tiles))
     => \A i \in 1..Len(tiles) : ~tiles[i].covered => ~tiles'[i].covered]_vars

\* C25: moveCount counts the tray insertions of the session: it grows by
\* exactly 1 on each activation that inserts into the tray, a session start
\* sets it to 0, and nothing else changes it; reveal, rejected activations, the
\* activation that triggers lose, reshuffle, undo and callbacks leave it alone.
C25_MoveCountCountsInsertions ==
  [][/\ IF moveCount' = moveCount
        THEN \/ tray' = tray
             \/ LET free == freeTileIds(tiles, currentLevel)
                IN  \A tileId \in TileIds :
                      ~(InsertingPick(tileId, free) /\ pickTile(tileId))
        ELSE \/ startGame /\ moveCount' = 0
             \/ /\ moveCount' = moveCount + 1
                /\ LET free == freeTileIds(tiles, currentLevel)
                   IN  \E tileId \in TileIds :
                         /\ InsertingPick(tileId, free)
                         /\ pickTile(tileId)
                         /\ TrayCount(tray', tileId) = TrayCount(tray, tileId) + 1
     /\ (undo \/ reshuffle \/ fireTimeout) => moveCount' = moveCount]_vars

\* two insertions were counted and one of them was taken back by undo
C25_Witness ==
  /\ uiStep = "game"
  /\ moveCount = 2
  /\ Len(history) = 1
  /\ Len(tray) = 1

\* number of tray entries of the symbol that are not matchedOut
OpenTrayCount(tr, letterId) ==
  Cardinality({i \in 1..Len(tr) : ~tr[i].matchedOut /\ tr[i].letterId = letterId})

\* C26: in every state of a session, for every symbol, the live tiles of the
\* symbol and the tray entries of the symbol that are not matchedOut are an
\* even number together.
C26_PairingParity ==
  (hasStarted /\ uiStep = "game") =>
    \A k \in 1..Len(letters) :
      (LiveLetterCount(tiles, letters[k]) + OpenTrayCount(tray, letters[k])) % 2 = 0

\* the game is won while the tray holds an entry that has no partner
C26_Witness ==
  /\ hasStarted
  /\ gameState = "win"
  /\ \E i \in 1..Len(tray) : ~tray[i].matchedOut

\* C27: the tray entries that are not matchedOut carry pairwise distinct
\* symbols, so one pair-resolution call per insertion marks every pair.
C27_OpenEntriesDistinct ==
  \A i, j \in 1..Len(tray) :
    (i < j /\ ~tray[i].matchedOut /\ ~tray[j].matchedOut)
      => tray[i].letterId # tray[j].letterId

\* an insertion has just marked a pair while another open entry waits
C27_Witness ==
  /\ \E i, j \in 1..Len(tray) :
       i < j /\ tray[i].matchedOut /\ tray[j].matchedOut
       /\ tray[i].letterId = tray[j].letterId
  /\ \E i \in 1..Len(tray) : ~tray[i].matchedOut

\* C28: merits are awarded at most once per session. A session starts only
\* while totalMerits is 0 (MaxTotalMerits), so a second award of a session is
\* an award on top of a positive totalMerits. totalMerits grows only on the
\* step into win, never decreases, and undo, reshuffle, a session start and a
\* session reset leave it alone.
C28_MeritsOncePerSession ==
  [][/\ totalMerits' >= totalMerits
     /\ totalMerits' > totalMerits
          => (totalMerits = 0 /\ gameState # "win" /\ gameState' = "win")
     /\ (undo \/ reshuffle \/ startGame \/ BannerFires)
          => totalMerits' = totalMerits]_vars

\* the session was won twice: the total holds more than the last award
C28_Witness ==
  /\ hasStarted
  /\ gameState = "win"
  /\ lastMerits # NoMerits
  /\ totalMerits > lastMerits

\* C29: the board never blocks itself: no two slots of the pool share grid
\* cell and layer, no tile gets the reason blocked:overlap-same, and whenever
\* a tile is live the free set is not empty.
C29_BoardNeverBlocksItself ==
  /\ \A i, j \in 1..Len(createLayoutPool) :
       i # j => createLayoutPool[i] # createLayoutPool[j]
  /\ blockedSameLayer(aliveTiles(tiles)) = {}
  /\ Len(aliveTiles(tiles)) > 0 => freeTileIds(tiles, currentLevel) # {}

\* the whole board of the last level with one tile on its way out: tiles lie
\* in three layers and some live tile is blocked
C29_Witness ==
  /\ currentLevel = MAX_LEVEL
  /\ LiveCount(tiles) = levelConfig(MAX_LEVEL).tileCount - 1
  /\ \E i \in 1..Len(tiles) : tiles[i].z = 2
  /\ Cardinality(freeTileIds(tiles, currentLevel)) < LiveCount(tiles)

\* tiles of tl that are not live
GoneCount(tl) == Len(tl) - LiveCount(tl)

\* no tile has two tray entries, the tile of every entry is animatingOut or
\* removed, and the tiles that left the board are the tray entries plus an
\* even number of cleared ones
BoardAndTrayAgree(tl, tr) ==
  /\ \A i, j \in 1..Len(tr) : i # j => tr[i].tileId # tr[j].tileId
  /\ \A i \in 1..Len(tr) :
       \E k \in 1..Len(tl) :
         tl[k].tileId = tr[i].tileId /\ (tl[k].removed \/ tl[k].animatingOut)
  /\ GoneCount(tl) - Len(tr) >= 0
  /\ (GoneCount(tl) - Len(tr)) % 2 = 0

\* C30: in every state no tileId occurs in two tray entries, the tile of every
\* tray entry is not live, and the number of tiles that are not live minus the
\* tray length is even and not negative; within a session the number of tiles
\* never changes.
C30_BoardAndTrayConsistent ==
  [][/\ BoardAndTrayAgree(tiles, tray)
     /\ BoardAndTrayAgree(tiles', tray')
     /\ (uiStep = "game" /\ uiStep' = "game") => Len(tiles') = Len(tiles)]_vars

\* a pair has been cleared from the tray and a third tile waits in it
C30_Witness ==
  /\ gameState = "playing"
  /\ Len(tray) = 1
  /\ GoneCount(tiles) = 3
  /\ \A i \in 1..Len(tiles) : tiles[i].animatingOut => tiles[i].removed

====
